---- MODULE Spec2Model ----
(***************************************************************************)
(* The Lambda Function URL handler returned by Resonate.httpHandler()      *)
(* (src/src/index.ts).  Every invocation runs the handler's synchronous    *)
(* part to completion (JavaScript is single-threaded): validation, URL     *)
(* resolution, construction of the collaborators and the call of           *)
(* resonateInner.process inside the executor of the `result` promise.      *)
(* Afterwards the engine fires the outcome callback, which resolves the    *)
(* promise the handler returned.  The engine and the other collaborators   *)
(* come from @resonatehq/sdk; what they may do (fire the callback now or   *)
(* later, once or again, throw) is the environment's choice.               *)
(***************************************************************************)
EXTENDS Naturals, Sequences, FiniteSets, TLC

\* Bounds of the model.
MaxInvocations == 3  \* invocations the handler serves in one behaviour
MaxFirings == 2      \* firings of the outcome callback that are counted per submission

\* Two invocations may be in flight together; one that is over gives way to the next.
Invs == {1, 2}

\* ------------------------------------------------------------------ values
undefined == "<undefined>"   \* the JavaScript value undefined (absent header, field, argument)
absent == "<absent>"         \* a key that does not occur in a serialised JSON text
Cyclic == "<cyclic>"         \* a value JSON.stringify cannot serialise (it throws TypeError)

Truthy(v) == v \notin {undefined, ""}

TaskHello == "task:hello"
TaskResume == "task:resume"
CoordUrl == "https://coord.example.com"

\* A parsed JSON value, as far as the handler reads it.
JsonNull == [kind |-> "null", type |-> undefined, task |-> undefined,
             href |-> undefined, base |-> undefined]
JsonObject(type, task, href, base) ==
    [kind |-> "object", type |-> type, task |-> task, href |-> href, base |-> base]

\* event.body: its text is undefined, empty, not JSON, or the JSON text of `value`.
Malformed == "{not json"
JsonText == "<json text>"
Body(text, value) == [text |-> text, value |-> value]

RejectedBodies ==
    { Body(undefined, JsonNull), Body("", JsonNull), Body(Malformed, JsonNull),
      Body(JsonText, JsonNull),
      Body(JsonText, JsonObject("ping", undefined, undefined, undefined)),
      Body(JsonText, JsonObject("ping", TaskHello, "object", CoordUrl)),
      Body(JsonText, JsonObject("invoke", undefined, "object", CoordUrl)) }
NoHrefBody == Body(JsonText, JsonObject("invoke", TaskHello, undefined, undefined))
NoBaseBody == Body(JsonText, JsonObject("resume", TaskResume, "object", undefined))
InvokeBody == Body(JsonText, JsonObject("invoke", TaskHello, "object", CoordUrl))
ResumeBody == Body(JsonText, JsonObject("resume", TaskResume, "object", CoordUrl))
Bodies == RejectedBodies \cup {NoHrefBody, NoBaseBody, InvokeBody, ResumeBody}

AllEvents ==
    [method : {"POST", "GET"},
     proto : {undefined, "", "https"},
     host : {undefined, "", "fn.example.com"},
     path : {undefined, "/"},
     body : Bodies]

\* The events the model draws from: every body and path behind valid headers, and a
\* sample of bodies behind a wrong method or missing headers.
Events ==
    { e \in AllEvents :
        IF e.method = "POST" /\ e.proto = "https" /\ e.host = "fn.example.com"
        THEN e.path = "/" \/ e.body \in {Body(undefined, JsonNull), InvokeBody}
        ELSE e.path = "/" /\ e.body \in {Body(Malformed, JsonNull), InvokeBody} }

NoEvent == [method |-> undefined, proto |-> undefined, host |-> undefined,
            path |-> undefined, body |-> Body(undefined, JsonNull)]

\* ------------------------------------------------------------------ the engine's outcome
\* The arguments of the outcome callback: (error, status).
NoStatus == [kind |-> undefined, value |-> undefined]
Completed(v) == [kind |-> "completed", value |-> v]
Suspended == [kind |-> "suspended", value |-> undefined]
ErrorStatus == [kind |-> "error", value |-> undefined]

Statuses == {NoStatus, Completed("Hello, World!"), Completed(undefined), Suspended, ErrorStatus}
Errors == {undefined, "boom", Cyclic}
\* Without an error any status; with an error no status, or a completed one beside it.
Outcomes ==
    { o \in [error : Errors, status : Statuses] :
        /\ o.error # undefined => o.status \in {NoStatus, Completed("Hello, World!")}
        /\ o.error = Cyclic => o.status = NoStatus }
NoOutcome == [error |-> undefined, status |-> NoStatus]

\* ------------------------------------------------------------------ responses
NoBody == [error |-> absent, details |-> absent, detailsError |-> absent,
           detailsStatus |-> absent, status |-> absent, result |-> absent,
           requestUrl |-> absent]
Response(code, body) == [statusCode |-> code, body |-> body]
NoResponse == Response(0, NoBody)

\* JSON.stringify of an object literal: a key whose value is undefined is left out,
\* and a value that cannot be serialised makes it throw.
JSONstringify(obj) ==
    [throws |-> \E k \in DOMAIN obj : obj[k] = Cyclic,
     text |-> [k \in DOMAIN obj |-> IF obj[k] = undefined THEN absent ELSE obj[k]]]

\* ------------------------------------------------------------------ the steps of the handler
MethodAllowedAny(e) == e.method \in {"POST", "GET"}
MethodAllowed(e) == e.method = "POST"

HeadersDefined(e) == e.proto # undefined /\ e.host # undefined
HeadersPresent(e) == Truthy(e.proto) /\ Truthy(e.host)

\* `${proto}://${host}${event.requestContext.http.path ?? ""}`
Url(e) == e.proto \o "://" \o e.host \o (IF e.path = undefined THEN "" ELSE e.path)

BodyPresent(e) == Truthy(e.body.text)

\* JSON.parse(event.body): throws SyntaxError on a text that is not JSON.
JSONparse(b) == [throws |-> b.text = Malformed, value |-> b.value]

\* !body || !(body.type === "invoke" || body.type === "resume") || !body.task
EnvelopeValid(v) ==
    /\ v.kind # "null"
    /\ v.type \in {"invoke", "resume"}
    /\ Truthy(v.task)

\* body.href.base: reading .base of an undefined href throws TypeError.
HrefBase(v) == [throws |-> v.href = undefined, value |-> v.base]

\* const task: Task = { kind: "unclaimed", task: body.task }
Task(v) == [kind |-> "unclaimed", task |-> v.task]
NoTask == [kind |-> undefined, task |-> undefined]

\* new HttpNetwork({ headers: {}, timeout: 60 * 1000, url: body.href.base, ... })
NetworkTimeout == 60 * 1000
HttpNetwork(base) == [constructed |-> TRUE, url |-> base, timeout |-> NetworkTimeout]
NoNetwork == [constructed |-> FALSE, url |-> undefined, timeout |-> 0]

\* new ResonateInner({ anycastNoPreference: url, anycastPreference: url, ..., ttl, unicast: url })
Ttl == 30 * 1000
ResonateInner(url) ==
    [constructed |-> TRUE, unicast |-> url, anycastPreference |-> url,
     anycastNoPreference |-> url, ttl |-> Ttl, heartbeat |-> "noop"]
NoInner ==
    [constructed |-> FALSE, unicast |-> undefined, anycastPreference |-> undefined,
     anycastNoPreference |-> undefined, ttl |-> 0, heartbeat |-> undefined]

\* The responses of the validation steps and of the catch clause.
MethodNotAllowed ==
    Response(405, [NoBody EXCEPT !.error = "Method not allowed. Use POST."])
MissingHeaders ==
    Response(400, [NoBody EXCEPT !.error = "Missing required headers: x-forwarded-proto or host."])
BodyMissing ==
    Response(400, [NoBody EXCEPT !.error = "Request body missing."])
BadEnvelope ==
    Response(400, [NoBody EXCEPT !.error =
        "Request body must contain \"type\" and \"task\" for Resonate invocation."])
HandlerFailed(err) ==
    Response(500, [NoBody EXCEPT !.error = "Handler failed: " \o err])

\* The text of a response body: the keys of the stringified object, the others absent.
BodyOf(json) == [k \in DOMAIN NoBody |-> IF k \in DOMAIN json.text THEN json.text[k] ELSE absent]
Stringified(code, json) == [throws |-> json.throws, response |-> Response(code, BodyOf(json))]

\* The three branches of the outcome callback: the response each hands to resolve, or
\* a throw out of JSON.stringify before resolve is reached.  details is the object
\* { error, status }; of a status its text keeps the kind.
FailedResponse(error, status) ==
    Stringified(500, JSONstringify([error |-> "Task processing failed",
                                    details |-> "object",
                                    detailsError |-> error,
                                    detailsStatus |-> status.kind]))

CompletedResponseNoUrl(status, url) ==
    Stringified(200, JSONstringify([status |-> "completed", result |-> status.value]))
CompletedResponse(status, url) ==
    Stringified(200, JSONstringify([status |-> "completed",
                                    result |-> status.value,
                                    requestUrl |-> url]))

SuspendedResponse(url) ==
    Stringified(200, JSONstringify([status |-> "suspended", requestUrl |-> url]))

\* The outcome callback (error, status) => { ... }
Callback(error, status, url) ==
    IF Truthy(error) \/ status.kind = undefined THEN FailedResponse(error, status)
    ELSE IF status.kind = "completed" THEN CompletedResponse(status, url)
    ELSE SuspendedResponse(url)

ResolveAlways(settle, response, r) == [settle |-> "returned", response |-> r]
\* resolve(r) on the `result` promise: it settles a pending promise and is a no-op on
\* a settled one.
Resolve(settle, response, r) ==
    IF settle = "pending" THEN [settle |-> "returned", response |-> r]
    ELSE [settle |-> settle, response |-> response]

\* A throw out of the executor of new Promise(...): it rejects a pending promise and
\* is a no-op on a settled one.
Reject(settle, response) ==
    IF settle = "pending" THEN [settle |-> "rejected", response |-> response]
    ELSE [settle |-> settle, response |-> response]

\* ------------------------------------------------------------------ the handler
\* What one run of the handler's synchronous part leaves behind.  steps lists the
\* steps it began, in order.
Run(steps, settle, response, url, network, inner, task, calls, firings, first) ==
    [steps |-> steps, settle |-> settle, response |-> response, url |-> url,
     network |-> network, inner |-> inner, task |-> task, calls |-> calls,
     firings |-> firings, first |-> first]

Return(steps, response, url) ==
    Run(steps, "returned", response, url, NoNetwork, NoInner, NoTask, 0, 0, NoOutcome)

NoRun == Run(<< >>, "idle", NoResponse, undefined, NoNetwork, NoInner, NoTask, 0, 0, NoOutcome)

\* What the environment does during the synchronous part: whether the constructor of
\* HttpNetwork throws, whether process fires the callback before it returns (and with
\* which arguments), and whether process throws (after that callback, if any).
Engines ==
    [networkThrows : BOOLEAN, callback : BOOLEAN, args : Outcomes, throws : BOOLEAN]

ValidateSteps == <<"method", "headers", "url", "body", "parse", "envelope">>
ConstructSteps == ValidateSteps \o <<"encoder", "network", "inner", "task", "process">>

\* new Promise((resolve) => { resonateInner.process(task, callback) }); return result
\* The executor runs at once.  A callback fired inside process resolves the promise
\* unless its body throws; a throw out of process (its own, or the callback's that it
\* lets through) leaves the executor and rejects the promise if it is still pending.
\* `return result` hands the promise to the caller without awaiting it inside the
\* try block, so a rejection is not seen by the catch clause.
Process(eng, url, network, inner, task) ==
    LET cb == Callback(eng.args.error, eng.args.status, url)
        fired == IF eng.callback /\ ~cb.throws
                 THEN Resolve("pending", NoResponse, cb.response)
                 ELSE [settle |-> "pending", response |-> NoResponse]
        final == IF eng.throws THEN Reject(fired.settle, fired.response) ELSE fired
    IN Run(ConstructSteps, final.settle, final.response, url, network, inner, task, 1,
           IF eng.callback THEN 1 ELSE 0,
           IF eng.callback THEN eng.args ELSE NoOutcome)

\* The handler from the resolved URL on: the body, the envelope, the collaborators,
\* the submission.  A throw on the way is caught by the catch clause.
Resolved(e, eng, url) ==
    IF ~BodyPresent(e)
    THEN Return(SubSeq(ValidateSteps, 1, 4), BodyMissing, url)
    ELSE LET parsed == JSONparse(e.body) IN
    IF parsed.throws
    THEN Return(SubSeq(ValidateSteps, 1, 5), HandlerFailed("SyntaxError"), url)
    ELSE LET body == parsed.value IN
    IF ~EnvelopeValid(body)
    THEN Return(ValidateSteps, BadEnvelope, url)
    ELSE LET base == HrefBase(body) IN
    IF base.throws
    THEN Return(SubSeq(ConstructSteps, 1, 8), HandlerFailed("TypeError"), url)
    ELSE IF eng.networkThrows
    THEN Return(SubSeq(ConstructSteps, 1, 8), HandlerFailed("Error"), url)
    ELSE Process(eng, url, HttpNetwork(base.value), ResonateInner(url), Task(body))

httpHandlerUrlFirst(e, eng) ==
    IF ~MethodAllowed(e)
    THEN Return(<<"method">>, MethodNotAllowed, undefined)
    ELSE LET url == Url(e) IN
    IF ~HeadersPresent(e)
    THEN Return(<<"method", "url", "headers">>, MissingHeaders, url)
    ELSE Resolved(e, eng, url)
\* The handler: the method check, the header check, the URL, and the rest.
httpHandler(e, eng) ==
    IF ~MethodAllowed(e)
    THEN Return(SubSeq(ValidateSteps, 1, 1), MethodNotAllowed, undefined)
    ELSE IF ~HeadersPresent(e)
    THEN Return(SubSeq(ValidateSteps, 1, 2), MissingHeaders, undefined)
    ELSE Resolved(e, eng, Url(e))

\* ------------------------------------------------------------------ the state machine
VARIABLES
    event,    \* event[i]: the event invocation i was called with
    run,      \* run[i]: what invocation i has done, and the state of the promise it returned
    served    \* the invocations the handler has been called for so far

vars == <<event, run, served>>

Init ==
    /\ event = [i \in Invs |-> NoEvent]
    /\ run = [i \in Invs |-> NoRun]
    /\ served = 0

\* An engine that takes no part: the handler returned before it reached one.
QuietEngine == [networkThrows |-> FALSE, callback |-> FALSE, args |-> NoOutcome, throws |-> FALSE]

ReachesNetwork(e) ==
    /\ MethodAllowed(e) /\ HeadersPresent(e) /\ BodyPresent(e)
    /\ ~JSONparse(e.body).throws
    /\ EnvelopeValid(e.body.value)
    /\ ~HrefBase(e.body.value).throws

\* What the environment may do in an invocation with event e.  The constructor of
\* HttpNetwork is taken to throw only on a url that is undefined.
EnginesFor(e) ==
    IF ~ReachesNetwork(e) THEN {QuietEngine}
    ELSE { eng \in Engines :
             /\ ~eng.callback => eng.args = NoOutcome
             /\ eng.networkThrows =>
                  /\ e.body.value.base = undefined
                  /\ eng = [QuietEngine EXCEPT !.networkThrows = TRUE] }

\* The platform invokes the handler; the synchronous part runs to its return.
Invoke(i) ==
    /\ run[i].settle = "idle"
    /\ served < MaxInvocations
    /\ \E e \in Events :
         \E eng \in EnginesFor(e) :
            /\ event' = [event EXCEPT ![i] = e]
            /\ run' = [run EXCEPT ![i] = httpHandler(e, eng)]
    /\ served' = served + 1

\* The engine fires the outcome callback of a submission after process has returned
\* (an engine whose process call threw fires none).  A throw out of the callback's
\* body goes to the engine, not to the handler.  Firings beyond MaxFirings happen
\* and are not counted.
Fire(i) ==
    /\ run[i].calls = 1
    /\ run[i].settle # "rejected"
    /\ \E o \in Outcomes :
         LET cb == Callback(o.error, o.status, run[i].url)
             after == IF cb.throws
                      THEN [settle |-> run[i].settle, response |-> run[i].response]
                      ELSE Resolve(run[i].settle, run[i].response, cb.response)
         IN run' = [run EXCEPT ![i].settle = after.settle,
                               ![i].response = after.response,
                               ![i].firings = IF @ < MaxFirings THEN @ + 1 ELSE @,
                               ![i].first = IF run[i].firings = 0 THEN o ELSE @]
    /\ UNCHANGED <<event, served>>

\* The promise the handler returned is fulfilled: the platform takes the response and
\* the invocation is over.  (A rejected promise stays as the fault the platform reports.)
Retire(i) ==
    /\ run[i].settle = "returned"
    /\ event' = [event EXCEPT ![i] = NoEvent]
    /\ run' = [run EXCEPT ![i] = NoRun]
    /\ UNCHANGED served

Next == \E i \in Invs : Invoke(i) \/ Fire(i) \/ Retire(i)

Spec == Init /\ [][Next]_vars

\* The engine fires the callback of every submission at least once.
FirstFire(i) == Fire(i) /\ run[i].firings = 0
FairSpec == Spec /\ \A i \in Invs : WF_vars(FirstFire(i))

\* ------------------------------------------------------------------ properties
Invoked(i) == run[i].settle # "idle"

\* The request, read off the event alone.
HasHeaders(e) == e.proto \notin {undefined, ""} /\ e.host \notin {undefined, ""}
HasEnvelope(e) ==
    /\ e.body.text = JsonText
    /\ e.body.value.kind = "object"
    /\ e.body.value.type \in {"invoke", "resume"}
    /\ e.body.value.task \notin {undefined, ""}
ValidPayload(e) ==
    /\ e.method = "POST" /\ HasHeaders(e) /\ HasEnvelope(e)
    /\ e.body.value.href = "object" /\ e.body.value.base # undefined
RequestUrl(e) == e.proto \o "://" \o e.host \o (IF e.path = undefined THEN "" ELSE e.path)
OnlyError(body, message) == body = [k \in DOMAIN body |-> IF k = "error" THEN message ELSE absent]

\* C1: an invocation whose method is not POST, whatever its headers and body, is
\* answered 405 with the 'Method not allowed' error body, and the engine's process
\* entry point is not called in it.
C1_NonPostRejected ==
    \A i \in Invs :
        Invoked(i) /\ event[i].method # "POST" =>
            /\ run[i].settle = "returned"
            /\ run[i].response.statusCode = 405
            /\ OnlyError(run[i].response.body, "Method not allowed. Use POST.")
            /\ run[i].calls = 0 /\ ~run[i].inner.constructed

C1_Witness ==
    \E i \in Invs :
        /\ Invoked(i) /\ event[i].method = "GET" /\ event[i].body = InvokeBody
        /\ HasHeaders(event[i])

\* C2: a POST invocation in which the forwarded-protocol header or the host header is
\* absent or empty, whatever the body, is answered 400 naming the missing headers,
\* and the engine's process entry point is not called.
C2_MissingHeadersRejected ==
    \A i \in Invs :
        Invoked(i) /\ event[i].method = "POST" /\ ~HasHeaders(event[i]) =>
            /\ run[i].settle = "returned"
            /\ run[i].response.statusCode = 400
            /\ OnlyError(run[i].response.body,
                         "Missing required headers: x-forwarded-proto or host.")
            /\ run[i].calls = 0 /\ ~run[i].inner.constructed

C2_Witness ==
    \E i, j \in Invs :
        /\ Invoked(i) /\ event[i].method = "POST" /\ event[i].body = InvokeBody
        /\ event[i].proto = "https" /\ event[i].host = ""
        /\ Invoked(j) /\ event[j].method = "POST" /\ event[j].proto = undefined
        /\ event[j].host = "fn.example.com"

\* C3: a POST invocation with both headers whose body is empty, is not parseable as
\* JSON, or parses without a type of 'invoke'/'resume' or without a task, is answered
\* with a client-error (4xx) status, and the engine's process entry point is not called.
C3_BadBodyIsClientError ==
    \A i \in Invs :
        Invoked(i) /\ event[i].method = "POST" /\ HasHeaders(event[i])
                   /\ ~HasEnvelope(event[i]) =>
            /\ run[i].settle = "returned"
            /\ run[i].response.statusCode \in 400..499
            /\ run[i].calls = 0

\* C4: a POST invocation with both headers and a body carrying a recognized type and
\* a task but no href.base (href absent, or href without base) is answered with a
\* 400-class rejection; the network transport is not constructed and the engine's
\* process entry point is not called.
C4_MissingBaseRejected ==
    \A i \in Invs :
        Invoked(i) /\ event[i].method = "POST" /\ HasHeaders(event[i])
                   /\ HasEnvelope(event[i]) /\ event[i].body.value.base = undefined =>
            /\ run[i].settle = "returned"
            /\ run[i].response.statusCode \in 400..499
            /\ ~run[i].network.constructed
            /\ run[i].calls = 0

\* The first firing of the callback ran to its resolve call.
FirstRan(i) == run[i].firings >= 1 /\ run[i].first.error # Cyclic
FirstFailed(i) == run[i].first.error # undefined \/ run[i].first.status = NoStatus

\* C5: for an invocation carrying a valid invoke or resume payload the handler calls
\* the engine's process entry point exactly once, with a task of kind 'unclaimed'
\* wrapping the payload's task unchanged, and does not submit again; once the
\* callback has fired and run, the handler has returned a response; a response it
\* returns is one of the outcome callback's, derived from the first firing, and once
\* returned it is not replaced.
C5_Submitted ==
    \A i \in Invs :
        Invoked(i) /\ ValidPayload(event[i]) =>
            /\ run[i].calls = 1
            /\ run[i].task = [kind |-> "unclaimed", task |-> event[i].body.value.task]
            /\ run[i].task.task \in {TaskHello, TaskResume}
            /\ FirstRan(i) => run[i].settle = "returned"
            /\ run[i].settle = "returned" =>
                 /\ run[i].firings >= 1
                 /\ run[i].response.body.error \in {absent, "Task processing failed"}
                 /\ FirstRan(i) =>
                      /\ run[i].response.statusCode = IF FirstFailed(i) THEN 500 ELSE 200
                      /\ run[i].response.body.detailsError =
                            IF run[i].first.error # undefined THEN run[i].first.error
                            ELSE absent
C5_Once ==
    \A i \in Invs :
        Invoked(i) /\ Invoked(i)' =>
            /\ run[i].calls' = run[i].calls
            /\ run[i].task' = run[i].task
            /\ run[i].settle = "returned" =>
                 run[i].settle' = "returned" /\ run[i].response' = run[i].response
C7_FailureIsServerError ==
    \A i \in Invs :
        /\ FirstRan(i) /\ run[i].settle = "returned"
        /\ FirstFailed(i) \/ run[i].first.status.kind = "error"
        => /\ run[i].response.statusCode = 500
           /\ run[i].response.body.error # absent
           /\ run[i].response.body.status = absent

\* C8: an exception raised at any step of an invocation (parsing the body, reading
\* href.base, a collaborator, the process call, the body of the callback) is turned
\* into a 500 response, and the promise the handler returned never rejects.
C8_ExceptionsBecomeResponses ==
    \A i \in Invs :
        /\ run[i].settle # "rejected"
        /\ Invoked(i) /\ event[i].method = "POST" /\ HasHeaders(event[i])
           /\ (\/ event[i].body.text = Malformed
               \/ HasEnvelope(event[i]) /\ event[i].body.value.href = undefined)
           => run[i].settle = "returned" /\ run[i].response.statusCode = 500
        /\ run[i].firings >= 1 /\ run[i].first.error = Cyclic
           => run[i].settle = "returned" /\ run[i].response.statusCode = 500

\* C9: every invocation eventually returns a response value; none is left pending.
C9_EveryInvocationReturns ==
    \A i \in Invs : Invoked(i) ~> (run[i].settle = "returned")

\* The steps in the order of the source, and the part of them that validates.
StepOrder == <<"method", "headers", "url", "body", "parse", "envelope",
               "encoder", "network", "inner", "task", "process">>
IsPrefix(s, t) == Len(s) <= Len(t) /\ s = SubSeq(t, 1, Len(s))
Began(i, step) == \E k \in 1..Len(run[i].steps) : run[i].steps[k] = step

\* C10 as stated: validation, address resolution and submission run in that order;
\* the URL is not resolved for a request that fails validation (body and envelope
\* validation included), and the engine is not constructed or called before the URL
\* is resolved.
C10_ResolvesAfterValidation ==
    \A i \in Invs :
        /\ Invoked(i) /\ ~(event[i].method = "POST" /\ HasHeaders(event[i])
                           /\ HasEnvelope(event[i]))
             => ~Began(i, "url") /\ run[i].url = undefined
        /\ run[i].inner.constructed \/ run[i].calls = 1 => Began(i, "url")

\* C10 amended: the steps run in the order method check, header check, address
\* resolution, body check, parsing, envelope validation, construction, submission,
\* each only after the one before succeeded.  The URL is not resolved for a request
\* that fails the method or header check (it is resolved before the body is looked
\* at); nothing is constructed or submitted for a request that fails any validation;
\* the engine is not constructed or called before the URL is resolved.
C10_StepOrder ==
    \A i \in Invs :
        /\ IsPrefix(run[i].steps, StepOrder)
        /\ Invoked(i) /\ ~(event[i].method = "POST" /\ HasHeaders(event[i]))
             => ~Began(i, "url") /\ run[i].url = undefined
        /\ Invoked(i) /\ ~(event[i].method = "POST" /\ HasHeaders(event[i])
                           /\ HasEnvelope(event[i]))
             => /\ ~Began(i, "encoder")
                /\ ~run[i].network.constructed /\ ~run[i].inner.constructed
                /\ run[i].calls = 0
        /\ run[i].inner.constructed \/ run[i].calls = 1 =>
             /\ Began(i, "url") /\ run[i].url = RequestUrl(event[i])
             /\ Began(i, "envelope")

C10_Witness ==
    \E i, j \in Invs :
        /\ Invoked(i) /\ event[i].method = "POST" /\ HasHeaders(event[i])
        /\ event[i].body.text = "" /\ Began(i, "url") /\ run[i].url # undefined
        /\ run[j].calls = 1 /\ run[j].steps = StepOrder

====
